---- MODULE Spec2Model ----
(***************************************************************************)
(* Opportunity loop of the arbitrage bot: the reconnect shell (main), the  *)
(* per-connection block loop (run_bot), opportunity evaluation             *)
(* (evaluate_and_execute), the atomic NonceManager and the spawned         *)
(* submission tasks (execute_on_chain).                                    *)
(*                                                                         *)
(* Abstractions of values:                                                 *)
(*   - token addresses are the strings "WETH" and "USDC";                  *)
(*   - eth_price_usd is a whole number of USD, liquidity is counted in     *)
(*     units of 10^19 and trade sizes in whole WETH, so the test           *)
(*     liquidity_f64 < amount_weth * 1e18 * 10 reads liquidity < amount;   *)
(*   - the 64-bit nonce counter is held as a representative modulo 2^64    *)
(*     close to zero (-1 stands for 2^64 - 1).                             *)
(***************************************************************************)
EXTENDS Integers, Sequences, FiniteSets, TLC

\* ───────────────────────────── bounds ─────────────────────────────────────
MaxHeaders == 2          \* block headers the stream delivers in one run
MaxAttempts == 2         \* run_bot calls explored when max_retries = 0
MaxRetries == 1          \* the positive value of MAX_RETRIES explored
MaxTx == 2               \* nonce allocations explored in one run
StartNonce == 1          \* the account's transaction count on the chain
Threshold == 1           \* CIRCUIT_BREAKER_THRESHOLD explored
ScanRange == 1           \* TICK_BITMAP_RANGE explored
MaxBitmapSyncs == 2      \* sync_tick_bitmap calls explored on one pool
MaxChainMoves == 2       \* changes of a pool on the chain seen by its writers
MaxSyncRounds == 1       \* periodic nonce synchronisations explored in one run
MaxAgeHeaders == 8
UintBits == 14           \* the width the 256-bit words of exact:: are cut to       \* headers explored for the bitmap refresh schedule

\* ───────────────────────── program constants ─────────────────────────────
NonceSyncInterval == 50
WordBits == 256
RefreshThreshold == 1    \* 0.001 USD, eth_price_usd counted in 0.001 USD
MinPriorityFee == 1      \* 1_000_000 wei, fees and bribes counted in 10^6 wei
MinBribeGas == 100000    \* the least gas the bribe is divided by
min_amount == 10         \* 0.0001 WETH, amounts counted in 0.00001 WETH
min_liq_cap == 100       \* 0.001 WETH, the least a liquidity cap counts for
scan_steps == 40
FeeDenominator == 100    \* the 1_000_000 that fee_pips counts in, cut to 100
max_iterations == 50

WETH == "WETH"
USDC == "USDC"
Pools == {0, 1}
ChainPrices == [i \in Pools |-> IF i = 0 THEN {1980, 2020} ELSE {2000}]
ChainLiquidity == {1}
TradeSizes == {1, 2}
EvmOutcomes == {"Success", "Revert", "Halt", "Error"}
ConnIds == 0 .. (MaxAttempts - 1)

VARIABLES
    config,           \* BotConfig + PoolConfig.token0_is_weth (fixed after start-up)
    mainPc,           \* position of the main task
    retry_count,      \* main: retry_count
    run_bot_calls,    \* number of run_bot calls made by main
    last_error,       \* the Err run_bot returned last
    block_number,     \* number of the newest block read / of the last header
    states,           \* run_bot: states[i], the PoolState of pool i
    all_synced,       \* run_bot: all_synced of the block being processed
    stats,            \* run_bot: ArbitrageStats
    nonce_managers,   \* one NonceManager per connection, with its call history
    tasks,            \* spawned execute_on_chain tasks still before send
    tx_count,         \* number of execute_on_chain tasks spawned so far
    broadcast,        \* transactions send_transaction accepted
    shadow_log,       \* number of lines appended to shadow_logs.json
    listeners,        \* connections whose pending_tx_listener task was spawned
                      \* (the JoinHandle is dropped at once: nothing in main
                      \* or run_bot aborts or joins the task)
    last_eval,        \* what evaluate_and_execute did on the current block
    headers,          \* number of headers the block streams delivered so far
    bitmap_pool,      \* the PoolState sync_tick_bitmap works on
    bitmap_spacing,   \* PoolConfig.tick_spacing of that pool
    bitmap_syncs,     \* number of sync_tick_bitmap calls made on it
    bitmap_result     \* what the last sync_tick_bitmap call returned

\* the state of the opportunity loop
mainVars == << config, mainPc, retry_count, run_bot_calls, last_error,
               block_number, states, all_synced, stats, nonce_managers, tasks,
               tx_count, broadcast, shadow_log, listeners, last_eval, headers >>

\* one use of the compact calldata codec: the arguments of
\* encode_compact_calldata (<< >> while the codec is not in use), the bytes it
\* returns (<< >> before the call) and what decode_compact_calldata makes of
\* them (<< >> before the call)
VARIABLES codec_in, codec_bytes, codec_out

\* one pool written by the block-driven sync and by the mempool-driven refresh
\* (<< >> while that pair is not looked at): chain is the pool on the chain
\* with the number of changes it went through, pool the PoolState, sync and
\* opt the two writers between their RPC read and their write, installed the
\* chain version the stored snapshot was read from
VARIABLES writers

\* the block count and the NonceManager of one connection over the blocks up
\* to a periodic nonce synchronisation (<< >> while not looked at)
VARIABLES nsync

\* the bitmap refresh schedule of one connection: block_number,
\* last_bitmap_block, the configured tick_bitmap_max_age_blocks and what the
\* last processed block did (<< >> while not looked at)
VARIABLES bmage

\* one computation of the priority fee in execute_inner: bribe_wei,
\* simulated_gas and the fee put on the transaction (<< >> while not looked at)
VARIABLES fee

\* one call of find_optimal_amount_with_bitmap: its inputs and its result
VARIABLES nr_result

\* one call of exact::mul_div and of exact::mul_div_rounding_up: the operands and the two results
VARIABLES muldiv

\* one call of exact::compute_swap_step: its arguments and the step it returns
VARIABLES swap

\* the state of the tick-bitmap refresh of one pool
bitmapVars == << bitmap_pool, bitmap_spacing, bitmap_syncs, bitmap_result >>

codecVars == << codec_in, codec_bytes, codec_out >>

\* the state of the components looked at on their own
moreVars == << writers, nsync, bmage, fee, nr_result, muldiv, swap >>

\* what the steps of one of these components leave alone
othersOfWriters == << mainVars, bitmapVars, codecVars, nsync, bmage, fee, nr_result, muldiv, swap >>
othersOfNsync == << mainVars, bitmapVars, codecVars, writers, bmage, fee, nr_result, muldiv, swap >>
othersOfBmage == << mainVars, bitmapVars, codecVars, writers, nsync, fee, nr_result, muldiv, swap >>
othersOfFee == << mainVars, bitmapVars, codecVars, writers, nsync, bmage, nr_result, muldiv, swap >>
othersOfNrResult == << mainVars, bitmapVars, codecVars, writers, nsync, bmage, fee, muldiv, swap >>
othersOfMuldiv == << mainVars, bitmapVars, codecVars, writers, nsync, bmage, fee, nr_result, swap >>
othersOfSwap == << mainVars, bitmapVars, codecVars, writers, nsync, bmage, fee, nr_result, muldiv >>

\* the state outside the opportunity loop
auxVars == << bitmapVars, codecVars, moreVars >>

vars == << mainVars, auxVars >>

\* ───────────────────────────── types.rs ───────────────────────────────────

\* PoolState::default()
DefaultPoolState ==
    [is_initialized |-> FALSE, eth_price_usd |-> 0, liquidity |-> 0, last_block |-> 0]

\* PoolState::is_active
is_active(s) == s.is_initialized /\ s.eth_price_usd > 0 /\ s.liquidity > 0

\* BotConfig::execution_enabled
execution_enabled(c) ==
    c.execution_enabled_flag /\ c.private_key /\ c.contract_address

\* BotConfig::shadow_mode
shadow_mode(c) == ~c.execution_enabled_flag

\* NonceManager::new, with the history of the calls made on it
NewNonceManager(n) ==
    [current_nonce |-> n, initial |-> n, k |-> 0, r |-> 0,
     forced |-> FALSE, returned |-> << >>]

\* NonceManager::current
current(nm) == nm.current_nonce

\* a get_and_increment that reads the counter with load() and does not advance it
get_and_increment_load(nm) ==
    [nm EXCEPT !.k = @ + 1,
               !.returned = Append(@, nm.current_nonce)]

\* NonceManager::get_and_increment: fetch_add(1); the value returned is the
\* last element of returned
get_and_increment(nm) ==
    [nm EXCEPT !.current_nonce = @ + 1,
               !.k = @ + 1,
               !.returned = Append(@, nm.current_nonce)]

\* a rollback that leaves the counter where it is
rollback_skipped(nm) ==
    [nm EXCEPT !.r = @ + 1]

\* NonceManager::rollback: fetch_sub(1)
rollback(nm) ==
    [nm EXCEPT !.current_nonce = @ - 1, !.r = @ + 1]

\* NonceManager::force_set
force_set(nm, nonce) ==
    [nm EXCEPT !.current_nonce = nonce, !.forced = TRUE]

\* ──────────────────────────── state_sync.rs ───────────────────────────────

\* a sync_pool_state that never lowers last_block
sync_pool_state_monotonic(s, rd, bn) ==
    IF rd.ok
    THEN [s EXCEPT !.eth_price_usd = rd.price,
                   !.liquidity = rd.liquidity,
                   !.last_block = IF bn > @ THEN bn ELSE @,
                   !.is_initialized = TRUE]
    ELSE s

\* sync_pool_state: rd is the outcome of the two reads (slot0, liquidity)
sync_pool_state(s, rd, bn) ==
    IF rd.ok
    THEN [s EXCEPT !.eth_price_usd = rd.price,
                   !.liquidity = rd.liquidity,
                   !.last_block = bn,
                   !.is_initialized = TRUE]
    ELSE s

\* the possible outcomes of reading pool i
PoolReads(i) ==
    [ok : {TRUE}, price : ChainPrices[i], liquidity : ChainLiquidity]
      \cup {[ok |-> FALSE, price |-> 0, liquidity |-> 0]}

\* the possible outcomes of reading all pools
AllPoolReads == {rds \in [Pools -> UNION {PoolReads(i) : i \in Pools}] :
                    \A i \in Pools : rds[i] \in PoolReads(i)}

\* sync_all_pools: every pool is synced on its own, the results are joined
sync_all_pools(ss, rds, bn) ==
    [i \in Pools |-> sync_pool_state(ss[i], rds[i], bn)]

\* |a - b|
abs_diff(a, b) == IF a >= b THEN a - b ELSE b - a

\* a comparison that also fires at a difference of exactly 0.001
price_changed_at_threshold(s, rd) ==
    abs_diff(s.eth_price_usd, rd.price) >= RefreshThreshold

\* optimistic_refresh_pool, lines 628-632: the comparison made under the read
\* lock
price_changed(s, rd) == abs_diff(s.eth_price_usd, rd.price) > RefreshThreshold

\* optimistic_refresh_pool, lines 634-643: the write made under the write lock
optimistic_write(s, rd, current_block) ==
    [s EXCEPT !.eth_price_usd = rd.price,
              !.liquidity = rd.liquidity,
              !.last_block = current_block]

\* Rust's integer / and % (truncation toward zero), for a positive divisor
rust_div(a, b) == IF a >= 0 THEN a \div b ELSE -((-a) \div b)
rust_rem(a, b) == a - b * rust_div(a, b)

\* `as i16`: the low 16 bits, read as a signed number
as_i16(x) == ((x + 32768) % 65536) - 32768

\* tick_to_word_pos (>> 8 is the arithmetic shift: floor division by 256)
tick_to_word_pos(tick, tick_spacing) ==
    LET compressed == IF tick < 0 /\ rust_rem(tick, tick_spacing) # 0
                      THEN rust_div(tick, tick_spacing) - 1
                      ELSE rust_div(tick, tick_spacing)
    IN  as_i16(compressed \div WordBits)

\* an extract_initialized_bits that forgets the word position
extract_initialized_bits_word0(word, word_pos, tick_spacing) ==
    {bit * tick_spacing : bit \in word}

\* extract_initialized_bits: a word is the set of its set bits
extract_initialized_bits(word, word_pos, tick_spacing) ==
    {(word_pos * WordBits + bit) * tick_spacing : bit \in word}

\* TickBitmapData::empty with scan_range and snapshot_block filled in
EmptyBitmap(block, scan_range) ==
    [words |-> << >>, ticks |-> << >>,
     snapshot_block |-> block, scan_range |-> scan_range]

\* sync_tick_bitmap, lines 243-257: the word positions scanned
word_positions(s, tick_spacing_cfg, scan_range) ==
    LET tick_spacing == IF tick_spacing_cfg > 1 THEN tick_spacing_cfg ELSE 1
        tick_lo == s.tick - scan_range * tick_spacing
        tick_hi == s.tick + scan_range * tick_spacing
    IN  tick_to_word_pos(tick_lo, tick_spacing)
            .. tick_to_word_pos(tick_hi, tick_spacing)

\* sync_tick_bitmap, lines 286-296: the words kept from the first aggregated
\* call: sub-calls that succeeded with a non-zero word
kept_words(positions, call1) ==
    [wp \in {w \in positions : call1[w].success /\ call1[w].word # {}}
        |-> call1[wp].word]

\* sync_tick_bitmap, lines 286-304: the initialized ticks of the kept words
\* that lie in the scanned tick range
all_initialized_ticks(s, tick_spacing_cfg, scan_range, call1) ==
    LET tick_spacing == IF tick_spacing_cfg > 1 THEN tick_spacing_cfg ELSE 1
        tick_lo == s.tick - scan_range * tick_spacing
        tick_hi == s.tick + scan_range * tick_spacing
        words == kept_words(word_positions(s, tick_spacing_cfg, scan_range), call1)
        found == UNION {extract_initialized_bits(words[wp], wp, tick_spacing) :
                          wp \in DOMAIN words}
    IN  {t \in found : t >= tick_lo /\ t <= tick_hi}

\* a sync_tick_bitmap that installs what it has when an aggregated call fails
sync_tick_bitmap_partial(s, tick_spacing_cfg, block, scan_range, call1_ok, call1, call2_ok, call2) ==
    LET positions == word_positions(s, tick_spacing_cfg, scan_range)
        words == IF call1_ok THEN kept_words(positions, call1) ELSE << >>
        found == IF call1_ok
                 THEN all_initialized_ticks(s, tick_spacing_cfg, scan_range, call1)
                 ELSE {}
        ticks == IF call2_ok
                 THEN [t \in {u \in found : call2[u].success /\ call2[u].initialized}
                         |-> [initialized |-> TRUE]]
                 ELSE << >>
        data == [EmptyBitmap(block, scan_range) EXCEPT !.words = words,
                                                       !.ticks = ticks]
    IN  [ok |-> (positions = {} \/ call1_ok) /\ (found = {} \/ call2_ok),
         state |-> [s EXCEPT !.tick_bitmap = << data >>]]

\* sync_tick_bitmap: call1 maps each word position to the result of its
\* tickBitmap sub-call, call2 each tick to the result of its ticks sub-call;
\* call1_ok and call2_ok tell whether the aggregated calls themselves succeed
sync_tick_bitmap(s, tick_spacing_cfg, block, scan_range, call1_ok, call1, call2_ok, call2) ==
    LET positions == word_positions(s, tick_spacing_cfg, scan_range)
    IN  IF positions # {} /\ ~call1_ok
        THEN [ok |-> FALSE, state |-> s]
        ELSE
          LET words == kept_words(positions, call1)
              found == all_initialized_ticks(s, tick_spacing_cfg, scan_range, call1)
          IN  IF found # {} /\ ~call2_ok
              THEN [ok |-> FALSE, state |-> s]
              ELSE
                LET ticks == [t \in {u \in found : /\ call2[u].success
                                                   /\ call2[u].initialized}
                                |-> [initialized |-> call2[t].initialized]]
                    data == [EmptyBitmap(block, scan_range)
                               EXCEPT !.words = words, !.ticks = ticks]
                IN  [ok |-> TRUE,
                     state |-> [s EXCEPT !.tick_bitmap = << data >>]]

\* ───────────────────────────── simulator.rs ───────────────────────────────

\* SimulationEngine::simulate: the SimulationResult built from the outcome of
\* evm.transact()
simulate(outcome) == [success |-> (outcome = "Success"), kind |-> outcome]

\* SimulationEngine::validate_mathematical
validate_mathematical(ss, buy_pool_idx, sell_pool_idx, amount_weth, stale) ==
    LET buy_state == ss[buy_pool_idx]
        sell_state == ss[sell_pool_idx]
    IN  IF ~is_active(buy_state) \/ ~is_active(sell_state)
        THEN [success |-> FALSE, kind |-> "inactive"]
        ELSE IF buy_state.liquidity < amount_weth \/ sell_state.liquidity < amount_weth
        THEN [success |-> FALSE, kind |-> "liquidity"]
        ELSE IF \/ buy_state.eth_price_usd < 100 \/ buy_state.eth_price_usd > 100000
                \/ sell_state.eth_price_usd < 100 \/ sell_state.eth_price_usd > 100000
        THEN [success |-> FALSE, kind |-> "price"]
        ELSE IF stale
        THEN [success |-> FALSE, kind |-> "stale"]
        ELSE [success |-> TRUE, kind |-> "math"]

\* Integers wider than the checker's are held as sequences of 16-bit limbs,
\* least significant limb first (the layout of ruint's U256, with narrower
\* limbs); a u128 has 8 limbs, a u32 has 2.

\* a to_be_bytes that writes the least significant byte first
to_le_bytes(n, width) ==
    [k \in 1..width |->
        LET d == k - 1
            limb == n[(d \div 2) + 1]
        IN  IF d % 2 = 1 THEN limb \div 256 ELSE limb % 256]

\* to_be_bytes: byte k of the result carries weight 256^(width - k)
to_be_bytes(n, width) ==
    [k \in 1..width |->
        LET d == width - k
            limb == n[(d \div 2) + 1]
        IN  IF d % 2 = 1 THEN limb \div 256 ELSE limb % 256]

\* a from_be_bytes that reads the least significant byte first
from_le_bytes(b) ==
    [j \in 1..(Len(b) \div 2) |-> b[2 * j] * 256 + b[2 * j - 1]]

\* from_be_bytes: the integer whose big-endian bytes are b
from_be_bytes(b) ==
    [j \in 1..(Len(b) \div 2) |->
        b[Len(b) - 2 * j + 1] * 256 + b[Len(b) - 2 * j + 2]]

\* encode_compact_calldata; an Address is its 20 bytes
encode_compact_calldata(pool_a, pool_b, owed_token, received_token, amount_in_wei, uni_direction, aero_direction, min_profit, deadline_block) ==
    pool_a \o pool_b \o owed_token \o received_token
        \o to_be_bytes(amount_in_wei, 32)
        \o << uni_direction >> \o << aero_direction >>
        \o to_be_bytes(min_profit, 16)
        \o to_be_bytes(deadline_block, 4)

\* decode_compact_calldata: << >> is None, << t >> is Some(t)
decode_compact_calldata(data) ==
    IF Len(data) # 134
    THEN << >>
    ELSE << [pool_a |-> SubSeq(data, 1, 20),
             pool_b |-> SubSeq(data, 21, 40),
             owed_token |-> SubSeq(data, 41, 60),
             received_token |-> SubSeq(data, 61, 80),
             amount_in_wei |-> from_be_bytes(SubSeq(data, 81, 112)),
             uni_direction |-> data[113],
             aero_direction |-> data[114],
             min_profit |-> from_be_bytes(SubSeq(data, 115, 130)),
             deadline_block |-> from_be_bytes(SubSeq(data, 131, 134))] >>

\* ────────────────────────────── math.rs ───────────────────────────────────

Token0(token0_is_weth) == IF token0_is_weth THEN WETH ELSE USDC
Token1(token0_is_weth) == IF token0_is_weth THEN USDC ELSE WETH

\* exact::compute_exact_swap: the token a swap takes in and the token it pays
\* out (zero_for_one = token0 in, token1 out)
SwapTokenIn(zero_for_one, token0_is_weth) ==
    IF zero_for_one THEN Token0(token0_is_weth) ELSE Token1(token0_is_weth)
SwapTokenOut(zero_for_one, token0_is_weth) ==
    IF zero_for_one THEN Token1(token0_is_weth) ELSE Token0(token0_is_weth)

\* exact::compute_exact_arbitrage_profit: the token the returned profit
\* (buy_result.amount_out - amount_in_wei) is an amount of
ExactProfitToken(token0_is_weth) ==
    LET sell_zero_for_one == token0_is_weth
        buy_zero_for_one == ~token0_is_weth
    IN  SwapTokenOut(buy_zero_for_one, token0_is_weth)

\* ───────────────────────────── strategy.rs ────────────────────────────────

\* compute_directions_and_tokens
compute_directions_and_tokens(buy_pool_idx, token0_is_weth, weth_address, usdc_address) ==
    IF token0_is_weth
    THEN IF buy_pool_idx = 0
         THEN << 1, 0, usdc_address, weth_address >>
         ELSE << 0, 1, weth_address, usdc_address >>
    ELSE IF buy_pool_idx = 0
         THEN << 0, 1, weth_address, usdc_address >>
         ELSE << 1, 0, usdc_address, weth_address >>

\* check_arbitrage_opportunity: stale is the staleness test, nr the result of
\* find_optimal_amount_with_bitmap (0 = not profitable, else the optimal
\* amount)
check_arbitrage_opportunity(ss, stale, nr) ==
    LET state_a == ss[0]
        state_b == ss[1]
        buy_idx == IF state_a.eth_price_usd < state_b.eth_price_usd THEN 0 ELSE 1
    IN  IF ~is_active(state_a) \/ ~is_active(state_b) THEN << >>
        ELSE IF stale THEN << >>
        ELSE IF nr = 0 THEN << >>
        ELSE << [buy_pool_idx |-> buy_idx,
                 sell_pool_idx |-> 1 - buy_idx,
                 optimal_amount_weth |-> nr] >>

\* some staleness and some result of the optimiser make
\* check_arbitrage_opportunity return None
may_find_nothing(ss) ==
    \E stale \in BOOLEAN, nr \in {0} \cup TradeSizes :
        check_arbitrage_opportunity(ss, stale, nr) = << >>

\* execute_inner, lines 574-592: the priority fee put on the transaction,
\* << >> for none; wei are counted in units of 10^6, gas in units of 1
priority_fee_per_gas(bribe_wei, simulated_gas) ==
    IF bribe_wei > 0
    THEN LET gas_with_buffer == (simulated_gas * 110) \div 100
             actual_gas == IF gas_with_buffer > MinBribeGas
                           THEN gas_with_buffer ELSE MinBribeGas
             per_gas == bribe_wei \div actual_gas
         IN  << IF per_gas > MinPriorityFee THEN per_gas ELSE MinPriorityFee >>
    ELSE << >>

\* f64::NEG_INFINITY, below every finite profit of the model
NEG_INFINITY == -2000000000

\* a quotient of two f64, cut to the unit of the model
f64_div(a, b) ==
    LET q == (IF a >= 0 THEN a ELSE -a) \div (IF b >= 0 THEN b ELSE -b)
    IN  IF (a >= 0) = (b >= 0) THEN q ELSE -q

\* compute_arbitrage_profit_with_bitmap: the two swaps give spread * a less
\* slip * a^2 over the repayment, p.eth_price_usd is 1, and a pool without
\* liquidity gives no output
compute_arbitrage_profit_with_bitmap(amount_in_weth, p) ==
    IF amount_in_weth <= 0 THEN NEG_INFINITY
    ELSE IF p.liquidity = 0 THEN NEG_INFINITY
    ELSE p.spread * amount_in_weth - p.slip * amount_in_weth * amount_in_weth
            - p.gas_cost_usd

\* profit_derivative, with the step h cut to one unit and the quotient
\* kept exact by counting in halves
profit_derivative(x, p) ==
    compute_arbitrage_profit_with_bitmap(x + 1, p)
        - compute_arbitrage_profit_with_bitmap(x - 1, p)

\* profit_second_derivative, in the same halves
profit_second_derivative(x, p) ==
    f64_div(profit_derivative(x + 1, p) - profit_derivative(x - 1, p), 2)

\* max_safe_swap_amount: nothing for a pool without liquidity
max_safe_swap_amount(liquidity) == IF liquidity <= 0 THEN 0 ELSE liquidity

\* the upper end of the search, lines 1075-1083
effective_max(p) ==
    LET cap_sell == max_safe_swap_amount(p.liquidity)
        cap_buy == max_safe_swap_amount(p.buy_liquidity)
        s == IF cap_sell > min_liq_cap THEN cap_sell ELSE min_liq_cap
        b == IF cap_buy > min_liq_cap THEN cap_buy ELSE min_liq_cap
        m == IF p.max_amount_weth < s THEN p.max_amount_weth ELSE s
    IN  IF m < b THEN m ELSE b

\* the i-th size of the coarse scan, line 1099
scan_amount(i, p) ==
    min_amount + ((effective_max(p) - min_amount) * i * i)
                    \div (scan_steps * scan_steps)

\* the coarse scan, lines 1093-1113, from step i on
RECURSIVE coarse_scan(_, _, _)
coarse_scan(i, best, p) ==
    IF i > scan_steps THEN best
    ELSE LET profit == compute_arbitrage_profit_with_bitmap(scan_amount(i, p), p)
         IN  coarse_scan(i + 1,
                 IF profit > best.profit
                 THEN [amount |-> scan_amount(i, p), profit |-> profit]
                 ELSE best, p)

\* the Newton refinement, lines 1125-1166, from iteration i on
RECURSIVE newton(_, _, _)
newton(i, x, p) ==
    IF i >= max_iterations
    THEN [x |-> x, converged |-> FALSE, iterations |-> i]
    ELSE LET f_prime == profit_derivative(x, p)
             f_double_prime == profit_second_derivative(x, p)
             step == f64_div(f_prime, f_double_prime)
             far == abs_diff(x - step, x) * 2 > effective_max(p)
             moved == IF far THEN x - f64_div(step, 4) ELSE x - step
             x_new == IF moved < min_amount THEN min_amount
                      ELSE IF moved > effective_max(p) THEN effective_max(p)
                      ELSE moved
         IN  IF f_double_prime = 0
             THEN [x |-> x, converged |-> FALSE, iterations |-> i + 1]
             ELSE IF x_new = x
             THEN [x |-> x_new, converged |-> TRUE, iterations |-> i + 1]
             ELSE newton(i + 1, x_new, p)

\* the result of the search when it gives up, lines 1085-1091 and 1117-1123
no_amount(expected_profit) ==
    [optimal_amount |-> 0, expected_profit |-> expected_profit,
     converged |-> FALSE, iterations |-> 0]

\* find_optimal_amount_with_bitmap as it would be if it gave up whenever the
\* best scanned profit is not above zero
find_optimal_amount_profit_only(p) ==
    LET best == coarse_scan(1, [amount |-> 0, profit |-> NEG_INFINITY], p)
        r == newton(0, best.amount, p)
    IN  IF effective_max(p) <= min_amount THEN no_amount(0)
        ELSE IF best.profit <= 0 \/ best.amount <= 0 THEN no_amount(0)
        ELSE [optimal_amount |-> r.x,
              expected_profit |-> compute_arbitrage_profit_with_bitmap(r.x, p),
              converged |-> r.converged, iterations |-> r.iterations]

\* find_optimal_amount_with_bitmap, lines 1055-1183
find_optimal_amount_with_bitmap(p) ==
    LET best == coarse_scan(1, [amount |-> 0, profit |-> NEG_INFINITY], p)
        r == newton(0, best.amount, p)
    IN  IF effective_max(p) <= min_amount THEN no_amount(0)
        ELSE IF best.profit <= NEG_INFINITY \/ best.amount <= 0
        THEN no_amount(IF best.profit > 0 THEN best.profit ELSE 0)
        ELSE [optimal_amount |-> r.x,
              expected_profit |-> compute_arbitrage_profit_with_bitmap(r.x, p),
              converged |-> r.converged, iterations |-> r.iterations]

\* U256::MAX at the width of the model
U256_MAX == 2^UintBits - 1

\* U256::checked_mul: << product >>, or << >> when it does not fit
checked_mul(a, b) ==
    IF a = 0 \/ b = 0 THEN << 0 >>
    ELSE IF a > U256_MAX \div b THEN << >> ELSE << a * b >>

\* U256::saturating_mul
saturating_mul(a, b) ==
    IF checked_mul(a, b) = << >> THEN U256_MAX ELSE checked_mul(a, b)[1]

\* the + of U256, which wraps
wrapping_add(a, b) == (a + b) % (U256_MAX + 1)

\* the - of U256, which wraps
wrapping_sub(a, b) == (a - b + U256_MAX + 1) % (U256_MAX + 1)

\* exact::mul_div, lines 1816-1849
mul_div(a, b, denominator) ==
    IF denominator = 0 THEN 0
    ELSE IF a = 0 \/ b = 0 THEN 0
    ELSE IF checked_mul(a, b) # << >> THEN checked_mul(a, b)[1] \div denominator
    ELSE LET big == IF a >= b THEN a ELSE b
             small == IF a >= b THEN b ELSE a
             q == big \div denominator
             r == big % denominator
             term1 == saturating_mul(q, small)
             q2 == small \div denominator
             r2 == small % denominator
             inner == saturating_mul(r, q2)
             rest == IF checked_mul(r, r2) # << >>
                     THEN checked_mul(r, r2)[1] \div denominator
                     ELSE 0
             term2 == IF checked_mul(r, small) # << >>
                      THEN checked_mul(r, small)[1] \div denominator
                      ELSE wrapping_add(inner, rest)
         IN  wrapping_add(term1, term2)

\* exact::mul_div_rounding_up, lines 1852-1866
mul_div_rounding_up(a, b, denominator) ==
    LET result == mul_div(a, b, denominator)
    IN  IF checked_mul(a, b) # << >>
        THEN IF denominator # 0 /\ checked_mul(a, b)[1] % denominator > 0
             THEN wrapping_add(result, 1)
             ELSE result
        ELSE wrapping_add(result, 1)

\* exact::Q96 at the width of the model: 2^5 for 2^96
Q96 == 32

\* exact::div_rounding_up
div_rounding_up(a, b) ==
    IF b = 0 THEN 0
    ELSE IF a % b > 0 THEN wrapping_add(a \div b, 1) ELSE a \div b

\* U256::from(liquidity) << 96
shl_q96(liquidity) == (liquidity * Q96) % (U256_MAX + 1)

\* exact::get_next_sqrt_price_from_amount0
get_next_sqrt_price_from_amount0(sqrt_price_x96, liquidity, amount, add) ==
    LET numerator1 == shl_q96(liquidity)
        product == mul_div(amount, sqrt_price_x96, 1)
    IN  IF amount = 0 THEN sqrt_price_x96
        ELSE IF add
        THEN IF wrapping_add(numerator1, product) >= numerator1
             THEN mul_div_rounding_up(numerator1, sqrt_price_x96,
                                      wrapping_add(numerator1, product))
             ELSE div_rounding_up(numerator1,
                      wrapping_add(numerator1 \div sqrt_price_x96, amount))
        ELSE IF numerator1 <= product THEN 0
        ELSE mul_div_rounding_up(numerator1, sqrt_price_x96,
                                 numerator1 - product)

\* exact::get_next_sqrt_price_from_amount1
get_next_sqrt_price_from_amount1(sqrt_price_x96, liquidity, amount, add) ==
    IF add
    THEN wrapping_add(sqrt_price_x96, mul_div(amount, Q96, liquidity))
    ELSE IF sqrt_price_x96 <= mul_div_rounding_up(amount, Q96, liquidity)
    THEN 0
    ELSE sqrt_price_x96 - mul_div_rounding_up(amount, Q96, liquidity)

\* exact::get_next_sqrt_price_from_input
get_next_sqrt_price_from_input(sqrt_price_x96, liquidity, amount_in, zero_for_one) ==
    IF zero_for_one
    THEN get_next_sqrt_price_from_amount0(sqrt_price_x96, liquidity, amount_in, TRUE)
    ELSE get_next_sqrt_price_from_amount1(sqrt_price_x96, liquidity, amount_in, TRUE)

\* exact::get_amount0_delta
get_amount0_delta(sqrt_ratio_a, sqrt_ratio_b, liquidity, round_up) ==
    LET lower == IF sqrt_ratio_a < sqrt_ratio_b THEN sqrt_ratio_a ELSE sqrt_ratio_b
        upper == IF sqrt_ratio_a < sqrt_ratio_b THEN sqrt_ratio_b ELSE sqrt_ratio_a
        numerator1 == shl_q96(liquidity)
        numerator2 == upper - lower
    IN  IF lower = 0 THEN 0
        ELSE IF round_up
        THEN div_rounding_up(mul_div_rounding_up(numerator1, numerator2, upper),
                             lower)
        ELSE mul_div(numerator1, numerator2, upper) \div lower

\* exact::get_amount1_delta
get_amount1_delta(sqrt_ratio_a, sqrt_ratio_b, liquidity, round_up) ==
    LET lower == IF sqrt_ratio_a < sqrt_ratio_b THEN sqrt_ratio_a ELSE sqrt_ratio_b
        upper == IF sqrt_ratio_a < sqrt_ratio_b THEN sqrt_ratio_b ELSE sqrt_ratio_a
    IN  IF round_up
        THEN mul_div_rounding_up(liquidity, upper - lower, Q96)
        ELSE mul_div(liquidity, upper - lower, Q96)

\* exact::compute_swap_step, lines 2071-2132
compute_swap_step(sqrt_ratio_current, sqrt_ratio_target, liquidity, amount_remaining, fee_pips) ==
    LET zero_for_one == sqrt_ratio_current >= sqrt_ratio_target
        one_minus_fee == FeeDenominator - fee_pips
        amount_remaining_less_fee ==
            mul_div(amount_remaining, one_minus_fee, FeeDenominator)
        amount_in_max ==
            IF zero_for_one
            THEN get_amount0_delta(sqrt_ratio_target, sqrt_ratio_current, liquidity, TRUE)
            ELSE get_amount1_delta(sqrt_ratio_current, sqrt_ratio_target, liquidity, TRUE)
        sqrt_ratio_next ==
            IF amount_remaining_less_fee >= amount_in_max
            THEN sqrt_ratio_target
            ELSE get_next_sqrt_price_from_input(sqrt_ratio_current, liquidity,
                     amount_remaining_less_fee, zero_for_one)
        max_reached == sqrt_ratio_next = sqrt_ratio_target
        amount_in ==
            IF max_reached THEN amount_in_max
            ELSE IF zero_for_one
            THEN get_amount0_delta(sqrt_ratio_next, sqrt_ratio_current, liquidity, TRUE)
            ELSE get_amount1_delta(sqrt_ratio_current, sqrt_ratio_next, liquidity, TRUE)
        amount_out ==
            IF zero_for_one
            THEN get_amount1_delta(sqrt_ratio_next, sqrt_ratio_current, liquidity, FALSE)
            ELSE get_amount0_delta(sqrt_ratio_current, sqrt_ratio_next, liquidity, FALSE)
        fee_amount ==
            IF ~max_reached
            THEN wrapping_sub(amount_remaining, amount_in)
            ELSE mul_div_rounding_up(amount_in, fee_pips, one_minus_fee)
    IN  [sqrt_ratio_next |-> sqrt_ratio_next, amount_in |-> amount_in,
         amount_out |-> amount_out, fee_amount |-> fee_amount]

\* the calldata evaluate_and_execute hands to execute_on_chain
SubmitCalldata(opp, c) ==
    LET d == compute_directions_and_tokens(opp.buy_pool_idx, c.token0_is_weth,
                                           c.weth_address, c.usdc_address)
    IN  [uni_dir |-> d[1], aero_dir |-> d[2],
         owed_token |-> d[3], received_token |-> d[4],
         min_profit_token |-> ExactProfitToken(c.token0_is_weth)]

\* a dispatch that tests only the key and the contract address, not the
\* EXECUTION_ENABLED flag
DispositionIgnoringFlag(c, sim_result, revm_result) ==
    IF ~sim_result.success THEN "discarded"
    ELSE IF c.private_key /\ c.contract_address THEN "submitted"
    ELSE IF shadow_mode(c) THEN "shadow"
    ELSE "observed"

\* evaluate_and_execute, lines 245-366: what is done with an opportunity given
\* the two simulation results
Disposition(c, sim_result, revm_result) ==
    IF ~sim_result.success THEN "discarded"
    ELSE IF shadow_mode(c) THEN "shadow"
    ELSE IF execution_enabled(c) THEN "submitted"
    ELSE "observed"

\* write_shadow_log: one line is appended to shadow_logs.json unless the file
\* cannot be opened or written (the error is printed and dropped)
write_shadow_log(log, io_ok) == IF io_ok THEN log + 1 ELSE log

NoEval ==
    [evaluated |-> FALSE, buy_pool_idx |-> 0, math_ok |-> FALSE,
     revm |-> "none", disposition |-> "none", nonce_allocated |-> FALSE]

\* ─────────────────────────────── Init ─────────────────────────────────────

Configs ==
    [execution_enabled_flag : BOOLEAN,
     private_key : BOOLEAN,
     contract_address : BOOLEAN,
     token0_is_weth : BOOLEAN,
     weth_address : {WETH},
     usdc_address : {USDC},
     max_retries : {0, MaxRetries},
     circuit_breaker_threshold : {Threshold}]

\* the pool sync_tick_bitmap works on before its first call: synced once, no
\* bitmap yet
BitmapIdle ==
    /\ bitmap_pool = [tick |-> 0, liquidity |-> 1, eth_price_usd |-> 2000,
                      last_block |-> 1, is_initialized |-> TRUE,
                      tick_bitmap |-> << >>]
    /\ bitmap_spacing = 1
    /\ bitmap_syncs = 0
    /\ bitmap_result = "none"

\* main before its first connection attempt
MainIdle ==
    /\ mainPc = "connect"
    /\ retry_count = 0
    /\ run_bot_calls = 0
    /\ last_error = "none"
    /\ block_number = 1
    /\ states = [i \in Pools |-> DefaultPoolState]
    /\ all_synced = FALSE
    /\ stats = [total_blocks_processed |-> 0, consecutive_failures |-> 0]
    /\ nonce_managers = [c \in ConnIds |-> NewNonceManager(0)]
    /\ tasks = {}
    /\ tx_count = 0
    /\ broadcast = {}
    /\ shadow_log = 0
    /\ listeners = {}
    /\ last_eval = NoEval
    /\ headers = 0

\* the integers 0, 1 and the largest one of a given number of limbs, and one
\* whose bytes are all different
NumZero(limbs) == [j \in 1..limbs |-> 0]
NumOne(limbs) == [j \in 1..limbs |-> IF j = 1 THEN 1 ELSE 0]
NumMax(limbs) == [j \in 1..limbs |-> 65535]
NumStair(limbs) == [j \in 1..limbs |-> (2 * j) * 256 + (2 * j - 1)]

\* the arguments the codec is run on
CodecAddresses == {[i \in 1..20 |-> i], [i \in 1..20 |-> 255 - i]}
CodecAmounts == {NumZero(16), NumOne(16), NumMax(16), NumStair(16)}
CodecDirections == {0, 1, 255}
CodecMinProfits == {NumZero(8), NumOne(8), NumMax(8), NumStair(8)}
CodecDeadlines == {NumZero(2), NumMax(2), NumStair(2)}
CodecInputs ==
    [pool_a : CodecAddresses, pool_b : CodecAddresses,
     owed_token : CodecAddresses, received_token : CodecAddresses,
     amount_in_wei : CodecAmounts,
     uni_direction : CodecDirections, aero_direction : CodecDirections,
     min_profit : CodecMinProfits, deadline_block : CodecDeadlines]

\* the codec while it is not in use: no call in progress
CodecIdle ==
    /\ codec_in = << >>
    /\ codec_bytes = << >>
    /\ codec_out = << >>

\* the components looked at on their own, while they are not
MoreIdle ==
    /\ writers = << >>
    /\ nsync = << >>
    /\ bmage = << >>
    /\ fee = << >>
    /\ nr_result = << >>
    /\ muldiv = << >>
    /\ swap = << >>

Init ==
    /\ config \in Configs
    /\ MainIdle
    /\ BitmapIdle
    /\ CodecIdle
    /\ MoreIdle

\* the process is alive: main has neither returned nor called process::exit
Running == mainPc \notin {"main_err", "exited"}

\* the connection run_bot is serving
conn == run_bot_calls - 1

\* executor_address of run_bot: the signer address, when a key is configured
has_executor == config.private_key

\* the answers of eth_getTransactionCount: the account's transaction count,
\* or -1 for an RPC error
ChainNonceReads == {StartNonce, -1}

\* ───────────────────────── main: reconnect shell ─────────────────────────

\* an attempt cap compared with > instead of >=
retry_cap_strict(rc, c) == c.max_retries > 0 /\ rc > c.max_retries

\* an attempt cap that does not treat max_retries = 0 as unlimited
retry_cap_unguarded(rc, c) == rc >= c.max_retries

\* main, line 365: the attempt cap
retry_cap_reached(rc, c) == c.max_retries > 0 /\ rc >= c.max_retries

\* run_bot up to the block loop: connect, read the newest block, build fresh
\* pool states, initial sync, NonceManager from the chain nonce, spawn the
\* pending-transaction listener, subscribe to block headers
RunBotSetup ==
    /\ mainPc = "connect"
    /\ run_bot_calls < MaxAttempts
    /\ run_bot_calls' = run_bot_calls + 1
    /\ \/ /\ mainPc' = "returned"
          /\ last_error' = "setup"
          /\ UNCHANGED << states, nonce_managers, listeners, stats >>
       \/ \E n \in (IF has_executor THEN ChainNonceReads ELSE {-1}) :
            /\ nonce_managers' =
                 [nonce_managers EXCEPT ![run_bot_calls] =
                    NewNonceManager(IF has_executor /\ n >= 0 THEN n ELSE 0)]
            /\ listeners' = listeners \cup {run_bot_calls}
            /\ \/ /\ mainPc' = "wait_header"
                  /\ last_error' = "none"
                  /\ \E rds \in AllPoolReads :
                       states' = sync_all_pools(
                                    [i \in Pools |-> DefaultPoolState],
                                    rds, block_number)
                  /\ stats' = [total_blocks_processed |-> 0,
                               consecutive_failures |-> 0]
               \/ /\ mainPc' = "returned"
                  /\ last_error' = "setup"
                  /\ UNCHANGED << states, stats >>
    /\ UNCHANGED << auxVars, headers, config, retry_count, block_number, all_synced, tasks,
                    tx_count, broadcast, shadow_log, last_eval >>

\* run_bot returns: its locals (states, stats, all_synced) go out of scope
RunBotLocalsDropped ==
    /\ states' = [i \in Pools |-> DefaultPoolState]
    /\ stats' = [total_blocks_processed |-> 0, consecutive_failures |-> 0]
    /\ all_synced' = FALSE
    /\ last_eval' = NoEval

\* run_bot, lines 632-639: no header within 15 s
HeartbeatTimeout ==
    /\ mainPc = "wait_header"
    /\ mainPc' = "returned"
    /\ last_error' = "heartbeat"
    /\ RunBotLocalsDropped
    /\ UNCHANGED << auxVars, headers, config, retry_count, run_bot_calls, block_number,
                    nonce_managers, tasks, tx_count, broadcast, shadow_log,
                    listeners >>

\* run_bot, lines 624-631: the header stream ended
StreamClosed ==
    /\ mainPc = "wait_header"
    /\ mainPc' = "returned"
    /\ last_error' = "stream_closed"
    /\ RunBotLocalsDropped
    /\ UNCHANGED << auxVars, headers, config, retry_count, run_bot_calls, block_number,
                    nonce_managers, tasks, tx_count, broadcast, shadow_log,
                    listeners >>

\* main, lines 363-371: the attempt cap is reached, main returns Err
RetryCapReached ==
    /\ mainPc = "returned"
    /\ retry_count' = retry_count + 1
    /\ retry_cap_reached(retry_count + 1, config)
    /\ mainPc' = "main_err"
    /\ UNCHANGED << auxVars, headers, config, run_bot_calls, last_error, block_number, states,
                    all_synced, stats, nonce_managers, tasks, tx_count,
                    broadcast, shadow_log, listeners, last_eval >>

\* main, lines 363-381: below the cap, main starts the 100 ms pause
ReconnectPause ==
    /\ mainPc = "returned"
    /\ retry_count' = retry_count + 1
    /\ ~retry_cap_reached(retry_count + 1, config)
    /\ mainPc' = "sleep"
    /\ UNCHANGED << auxVars, headers, config, run_bot_calls, last_error, block_number, states,
                    all_synced, stats, nonce_managers, tasks, tx_count,
                    broadcast, shadow_log, listeners, last_eval >>

\* main, line 381: the pause is over, the loop calls run_bot again
PauseOver ==
    /\ mainPc = "sleep"
    /\ mainPc' = "connect"
    /\ UNCHANGED << auxVars, headers, config, retry_count, run_bot_calls, last_error, block_number,
                    states, all_synced, stats, nonce_managers, tasks, tx_count,
                    broadcast, shadow_log, listeners, last_eval >>

\* ───────────────────────── run_bot: block loop ────────────────────────────

\* header.number of the next header of the stream: the next height, or, after
\* a chain reorganisation, a lower height
HeaderNumbers(bn) == {bn + 1} \cup (IF bn > 1 THEN {bn - 1} ELSE {})

\* run_bot, lines 619-670: a header arrives, all pools are synced from the
\* chain, the block is counted
HeaderArrives ==
    /\ mainPc = "wait_header"
    /\ headers < MaxHeaders
    /\ tx_count < MaxTx
    /\ headers' = headers + 1
    /\ block_number' \in HeaderNumbers(block_number)
    /\ \E rds \in AllPoolReads :
         /\ states' = sync_all_pools(states, rds, block_number')
         /\ all_synced' = (\A i \in Pools : rds[i].ok)
    /\ stats' = [stats EXCEPT !.total_blocks_processed = @ + 1]
    /\ last_eval' = NoEval
    /\ mainPc' = "detect"
    /\ UNCHANGED << auxVars, config, retry_count, run_bot_calls, last_error,
                    nonce_managers, tasks, tx_count, broadcast, shadow_log,
                    listeners >>

\* a circuit-breaker test compared with > instead of >=
breaker_tripped_strict(st, c) ==
    st.consecutive_failures > c.circuit_breaker_threshold

\* run_bot, line 705: the circuit-breaker test
breaker_tripped(st, c) == st.consecutive_failures >= c.circuit_breaker_threshold

\* run_bot, lines 698-725: circuit breaker, std::process::exit(1)
CircuitBreaker ==
    /\ mainPc = "detect"
    /\ all_synced
    /\ breaker_tripped(stats, config)
    /\ mainPc' = "exited"
    /\ UNCHANGED << auxVars, headers, config, retry_count, run_bot_calls, last_error, block_number,
                    states, all_synced, stats, nonce_managers, tasks, tx_count,
                    broadcast, shadow_log, listeners, last_eval >>

\* run_bot, lines 698-742: a pool failed to sync, or
\* check_arbitrage_opportunity returns None
NoOpportunity ==
    /\ mainPc = "detect"
    /\ \/ ~all_synced
       \/ /\ ~breaker_tripped(stats, config)
          /\ may_find_nothing(states) = TRUE
    /\ mainPc' = "nonce_sync"
    /\ UNCHANGED << auxVars, headers, config, retry_count, run_bot_calls, last_error, block_number,
                    states, all_synced, stats, nonce_managers, tasks, tx_count,
                    broadcast, shadow_log, listeners, last_eval >>

\* evaluate_and_execute on the opportunity opp; outcome is the result of
\* evm.transact(), stale the staleness test of validate_mathematical, io_ok
\* whether shadow_logs.json can be appended to
evaluate_and_execute(opp, outcome, stale, io_ok) ==
    LET sim_result == validate_mathematical(states, opp.buy_pool_idx,
                                            opp.sell_pool_idx,
                                            opp.optimal_amount_weth, stale)
        revm_result == IF config.contract_address
                       THEN simulate(outcome)
                       ELSE sim_result
        d == Disposition(config, sim_result, revm_result)
        nm == nonce_managers[conn]
    IN  /\ stats' = [stats EXCEPT !.consecutive_failures =
                        IF d = "discarded" THEN @ + 1 ELSE 0]
        /\ shadow_log' = IF d = "shadow"
                         THEN write_shadow_log(shadow_log, io_ok)
                         ELSE shadow_log
        /\ IF d = "submitted"
           THEN /\ nonce_managers' =
                     [nonce_managers EXCEPT ![conn] = get_and_increment(nm)]
                /\ tx_count' = tx_count + 1
                /\ tasks' = tasks \cup
                     {[id |-> tx_count + 1, nonce |-> current(nm), nm |-> conn,
                       calldata |-> SubmitCalldata(opp, config)]}
           ELSE UNCHANGED << nonce_managers, tx_count, tasks >>
        /\ last_eval' =
             [evaluated |-> TRUE, buy_pool_idx |-> opp.buy_pool_idx,
              math_ok |-> sim_result.success,
              revm |-> IF config.contract_address THEN outcome ELSE "none",
              disposition |-> d,
              nonce_allocated |-> (d = "submitted")]

\* the results of evm.transact() that evaluate_and_execute can see: simulate
\* is called only when a contract address is configured
SimulateOutcomes == IF config.contract_address THEN EvmOutcomes ELSE {"Success"}

\* whether shadow_logs.json can be appended to; the file is touched only in
\* shadow mode
ShadowLogOutcomes == IF shadow_mode(config) THEN BOOLEAN ELSE {TRUE}

\* a block loop that runs detection without looking at all_synced
EvaluateAndExecuteUnsynced ==
    /\ mainPc = "detect"
    /\ ~breaker_tripped(stats, config)
    /\ \E nr \in TradeSizes, outcome \in SimulateOutcomes, stale \in BOOLEAN,
          io_ok \in ShadowLogOutcomes :
         LET found == check_arbitrage_opportunity(states, FALSE, nr)
         IN  /\ found # << >>
             /\ evaluate_and_execute(found[1], outcome, stale, io_ok)
    /\ mainPc' = "nonce_sync"
    /\ UNCHANGED << auxVars, headers, config, retry_count, run_bot_calls, last_error,
                    block_number, states, all_synced, broadcast, listeners >>

\* run_bot, lines 727-741: an opportunity is found and evaluated
EvaluateAndExecute ==
    /\ mainPc = "detect"
    /\ all_synced
    /\ ~breaker_tripped(stats, config)
    /\ \E nr \in TradeSizes, outcome \in SimulateOutcomes, stale \in BOOLEAN,
          io_ok \in ShadowLogOutcomes :
         LET found == check_arbitrage_opportunity(states, FALSE, nr)
         IN  /\ found # << >>
             /\ evaluate_and_execute(found[1], outcome, stale, io_ok)
    /\ mainPc' = "nonce_sync"
    /\ UNCHANGED << auxVars, headers, config, retry_count, run_bot_calls, last_error, block_number,
                    states, all_synced, broadcast, listeners >>

\* run_bot, lines 754-757: the nonce of the executor is read from the chain on
\* this block
nonce_sync_due(total_blocks_processed, executor) ==
    /\ total_blocks_processed % NonceSyncInterval = 0
    /\ total_blocks_processed > 0
    /\ executor

\* a synchronisation that only ever raises the local counter
nonce_sync_raise_only(nm, rd) ==
    IF rd >= 0 /\ current(nm) < rd THEN force_set(nm, rd) ELSE nm

\* run_bot, lines 758-772: rd is the answer of get_transaction_count, -1 for
\* an error
nonce_sync(nm, rd) ==
    IF rd >= 0 /\ current(nm) # rd THEN force_set(nm, rd) ELSE nm

\* run_bot, lines 751-775: every 50 processed blocks the local nonce is
\* compared with the chain nonce and force-set when they differ; the loop
\* body ends, its locals (all_synced, the opportunity) go out of scope
PeriodicNonceSync ==
    /\ mainPc = "nonce_sync"
    /\ IF nonce_sync_due(stats.total_blocks_processed, has_executor)
       THEN \E rd \in ChainNonceReads :
              nonce_managers' =
                [nonce_managers EXCEPT ![conn] = nonce_sync(@, rd)]
       ELSE UNCHANGED nonce_managers
    /\ mainPc' = "wait_header"
    /\ all_synced' = FALSE
    /\ last_eval' = NoEval
    /\ UNCHANGED << auxVars, headers, config, retry_count, run_bot_calls, last_error, block_number,
                    states, stats, tasks, tx_count, broadcast, shadow_log,
                    listeners >>

\* ─────────────────────── execute_on_chain tasks ───────────────────────────

\* execute_on_chain, lines 501-504: execute_inner returned Ok, the
\* transaction was accepted by send_transaction
TaskSendOk ==
    /\ Running
    /\ \E t \in tasks :
         /\ tasks' = tasks \ {t}
         /\ broadcast' = broadcast \cup {[id |-> t.id, nonce |-> t.nonce, nm |-> t.nm]}
    /\ UNCHANGED << auxVars, headers, config, mainPc, retry_count, run_bot_calls, last_error,
                    block_number, states, all_synced, stats, nonce_managers,
                    tx_count, shadow_log, listeners, last_eval >>

\* execute_on_chain, lines 505-509: execute_inner returned Err (bad key, no
\* connection, send_transaction rejected), the nonce is rolled back
TaskSendFail ==
    /\ Running
    /\ \E t \in tasks :
         /\ tasks' = tasks \ {t}
         /\ nonce_managers' =
              [nonce_managers EXCEPT ![t.nm] = rollback(@)]
    /\ UNCHANGED << auxVars, headers, config, mainPc, retry_count, run_bot_calls, last_error,
                    block_number, states, all_synced, stats, tx_count,
                    broadcast, shadow_log, listeners, last_eval >>

Next ==
    \/ RunBotSetup
    \/ HeartbeatTimeout
    \/ StreamClosed
    \/ RetryCapReached
    \/ ReconnectPause
    \/ PauseOver
    \/ HeaderArrives
    \/ CircuitBreaker
    \/ NoOpportunity
    \/ EvaluateAndExecute
    \/ PeriodicNonceSync
    \/ TaskSendOk
    \/ TaskSendFail

Spec == Init /\ [][Next]_vars

\* ───────────────────── sync_tick_bitmap on one pool ────────────────────────

\* the current ticks of the pool, its configured tick spacings (0 is raised to
\* 1 by sync_tick_bitmap) and the bits a bitmap word on chain may have set
BitmapTicks == {-1, 0}
TickSpacings == {0, 1, 2}
WordBitChoices == {0, WordBits - 1}

\* the result of one tickBitmap sub-call: usable (success and 32 bytes) with
\* its word, or not
WordResults ==
    [success : {TRUE}, word : SUBSET WordBitChoices]
        \cup {[success |-> FALSE, word |-> {}]}

\* the result of one ticks sub-call: usable (success and decodable) with the
\* initialized flag of the tick, or not
TickResults ==
    [success : {TRUE}, initialized : BOOLEAN]
        \cup {[success |-> FALSE, initialized |-> FALSE]}

\* a configuration that plays no part in the bitmap sync
ShadowConfig ==
    [execution_enabled_flag |-> FALSE, private_key |-> FALSE,
     contract_address |-> FALSE, token0_is_weth |-> TRUE,
     weth_address |-> WETH, usdc_address |-> USDC,
     max_retries |-> 0, circuit_breaker_threshold |-> Threshold]

InitBitmap ==
    /\ config = ShadowConfig
    /\ MainIdle
    /\ bitmap_pool \in [tick : BitmapTicks, liquidity : {1},
                         eth_price_usd : {2000}, last_block : {1},
                         is_initialized : {TRUE}, tick_bitmap : {<< >>}]
    /\ bitmap_spacing \in TickSpacings
    /\ bitmap_syncs = 0
    /\ bitmap_result = "none"
    /\ CodecIdle
    /\ MoreIdle

\* one call of sync_tick_bitmap on the pool
SyncTickBitmap ==
    /\ bitmap_syncs < MaxBitmapSyncs
    /\ \E call1_ok \in BOOLEAN, call2_ok \in BOOLEAN :
       \E call1 \in [word_positions(bitmap_pool, bitmap_spacing, ScanRange)
                        -> WordResults] :
       \E call2 \in [all_initialized_ticks(bitmap_pool, bitmap_spacing,
                                            ScanRange, call1) -> TickResults] :
         LET r == sync_tick_bitmap(bitmap_pool, bitmap_spacing,
                                   bitmap_pool.last_block, ScanRange,
                                   call1_ok, call1, call2_ok, call2)
             failures == \/ \E w \in DOMAIN call1 : ~call1[w].success
                         \/ \E t \in DOMAIN call2 : ~call2[t].success
         IN  /\ bitmap_pool' = r.state
             /\ bitmap_result' = IF ~r.ok THEN "err"
                                  ELSE IF failures THEN "ok_with_failures"
                                  ELSE "ok"
    /\ bitmap_syncs' = bitmap_syncs + 1
    /\ UNCHANGED << mainVars, codecVars, moreVars, bitmap_spacing >>

\* sync_pool_state moves the pool's tick between two bitmap syncs
PoolTickMoves ==
    /\ bitmap_syncs < MaxBitmapSyncs
    /\ \E t \in BitmapTicks \ {bitmap_pool.tick} :
         bitmap_pool' = [bitmap_pool EXCEPT !.tick = t]
    /\ UNCHANGED << mainVars, codecVars, moreVars, bitmap_spacing, bitmap_syncs, bitmap_result >>

NextBitmap ==
    \/ SyncTickBitmap
    \/ PoolTickMoves

SpecBitmap == InitBitmap /\ [][NextBitmap]_vars

\* ───────────────────── the compact calldata codec ─────────────────────────

InitCodec ==
    /\ config = ShadowConfig
    /\ MainIdle
    /\ BitmapIdle
    /\ codec_in \in CodecInputs
    /\ codec_bytes = << >>
    /\ codec_out = << >>
    /\ MoreIdle

\* encode_compact_calldata is called on the arguments
EncodeCompactCalldata ==
    /\ codec_bytes = << >>
    /\ codec_bytes' = encode_compact_calldata(
                          codec_in.pool_a, codec_in.pool_b,
                          codec_in.owed_token, codec_in.received_token,
                          codec_in.amount_in_wei, codec_in.uni_direction,
                          codec_in.aero_direction, codec_in.min_profit,
                          codec_in.deadline_block)
    /\ UNCHANGED << mainVars, bitmapVars, moreVars, codec_in, codec_out >>

\* decode_compact_calldata is called on the encoded bytes
DecodeCompactCalldata ==
    /\ codec_bytes # << >>
    /\ codec_out = << >>
    /\ codec_out' = decode_compact_calldata(codec_bytes)
    /\ UNCHANGED << mainVars, bitmapVars, moreVars, codec_in, codec_bytes >>

NextCodec ==
    \/ EncodeCompactCalldata
    \/ DecodeCompactCalldata

SpecCodec == InitCodec /\ [][NextCodec]_vars

\* ─────────── one pool, block-driven sync and mempool-driven refresh ─────────

\* the states of the pool on the chain: slot0 (held as the price it gives, in
\* 0.001 USD) and liquidity
WriterPrices == {2000000, 2000001, 2000002}
WriterLiquidity == {1, 2}

\* a writer that is not between its RPC read and its write
WriterIdle == [pc |-> "idle", rd |-> << >>, bn |-> 0]

\* the refresh before its first call; between calls it keeps what the last
\* call read (rd), saw stored (seen) and returned (result)
RefreshIdle == [pc |-> "idle", rd |-> << >>, bn |-> 0, seen |-> 0,
                result |-> "none"]

\* the outcome of reading the pool from the chain now
ChainRead(ok) ==
    IF ok
    THEN [ok |-> TRUE, price |-> writers.chain.price,
          liquidity |-> writers.chain.liquidity,
          version |-> writers.chain.version]
    ELSE [ok |-> FALSE, price |-> 0, liquidity |-> 0, version |-> 0]

\* run_bot synced the pool once (initial sync) and spawned the listener
InitWriters ==
    /\ config = ShadowConfig
    /\ MainIdle
    /\ BitmapIdle
    /\ CodecIdle
    /\ nsync = << >>
    /\ bmage = << >>
    /\ fee = << >>
    /\ nr_result = << >>
    /\ muldiv = << >>
    /\ swap = << >>
    /\ \E p \in WriterPrices, l \in WriterLiquidity :
         writers = [chain |-> [price |-> p, liquidity |-> l, version |-> 0],
                    pool |-> [is_initialized |-> TRUE, eth_price_usd |-> p,
                              liquidity |-> l, last_block |-> 1],
                    sync |-> WriterIdle,
                    opt |-> RefreshIdle,
                    block |-> 1,
                    installed |-> 0]

\* a swap or a liquidity change lands on the pool
ChainMoves ==
    /\ writers.chain.version < MaxChainMoves
    /\ \E p \in WriterPrices, l \in WriterLiquidity :
         /\ << p, l >> # << writers.chain.price, writers.chain.liquidity >>
         /\ writers' = [writers EXCEPT
                          !.chain = [price |-> p, liquidity |-> l,
                                     version |-> @.version + 1]]
    /\ UNCHANGED othersOfWriters

\* sync_pool_state, lines 139-154: a header arrived and the sync reads slot0
\* and liquidity; an error returns at once
SyncPoolRead ==
    /\ writers.sync.pc = "idle"
    /\ writers.block <= MaxChainMoves
    /\ \E ok \in BOOLEAN :
         writers' = [writers EXCEPT
                       !.block = @ + 1,
                       !.sync = IF ok
                                THEN [pc |-> "write", rd |-> ChainRead(TRUE),
                                      bn |-> writers.block + 1]
                                ELSE WriterIdle]
    /\ UNCHANGED othersOfWriters

\* sync_pool_state, lines 172-183: the write under the write lock
SyncPoolWrite ==
    /\ writers.sync.pc = "write"
    /\ writers' = [writers EXCEPT
                     !.pool = sync_pool_state(@, writers.sync.rd, writers.sync.bn),
                     !.installed = writers.sync.rd.version,
                     !.sync = WriterIdle]
    /\ UNCHANGED othersOfWriters

\* pending_tx_listener, line 823, and optimistic_refresh_pool, lines 594-610:
\* a pending swap on the pool is seen, current_block is taken from the stored
\* state and slot0 and liquidity are read; an error returns at once
OptimisticRead ==
    /\ writers.opt.pc = "idle"
    /\ \E ok \in BOOLEAN :
         writers' = [writers EXCEPT
                       !.opt = IF ok
                               THEN [pc |-> "compare", rd |-> ChainRead(TRUE),
                                     bn |-> writers.pool.last_block,
                                     seen |-> 0, result |-> "none"]
                               ELSE [pc |-> "idle", rd |-> ChainRead(FALSE),
                                     bn |-> writers.pool.last_block,
                                     seen |-> 0, result |-> "Err"]]
    /\ UNCHANGED othersOfWriters

\* optimistic_refresh_pool, lines 628-632 and 645-646: the comparison under
\* the read lock; Ok(false) when the price did not change
OptimisticCompare ==
    /\ writers.opt.pc = "compare"
    /\ writers' = [writers EXCEPT
                     !.opt = IF price_changed(writers.pool, writers.opt.rd)
                             THEN [@ EXCEPT !.pc = "write",
                                            !.seen = writers.pool.eth_price_usd]
                             ELSE [@ EXCEPT !.pc = "idle",
                                            !.seen = writers.pool.eth_price_usd,
                                            !.result = "Ok(false)"]]
    /\ UNCHANGED othersOfWriters

\* optimistic_refresh_pool, lines 634-644: the write under the write lock
OptimisticWrite ==
    /\ writers.opt.pc = "write"
    /\ writers' = [writers EXCEPT
                     !.pool = optimistic_write(@, writers.opt.rd, writers.opt.bn),
                     !.installed = writers.opt.rd.version,
                     !.opt = [@ EXCEPT !.pc = "idle", !.result = "Ok(true)"]]
    /\ UNCHANGED othersOfWriters

NextWriters ==
    \/ ChainMoves
    \/ SyncPoolRead
    \/ SyncPoolWrite
    \/ OptimisticRead
    \/ OptimisticCompare
    \/ OptimisticWrite

SpecWriters == InitWriters /\ [][NextWriters]_vars

\* ─────────── one connection up to its periodic nonce synchronisation ───────

\* run_bot after its setup: no block processed yet, the NonceManager built
\* from the chain nonce, or from 0 when there is no executor or the read failed
InitNsync ==
    /\ config = ShadowConfig
    /\ MainIdle
    /\ BitmapIdle
    /\ CodecIdle
    /\ writers = << >>
    /\ bmage = << >>
    /\ fee = << >>
    /\ nr_result = << >>
    /\ muldiv = << >>
    /\ swap = << >>
    /\ \E executor \in BOOLEAN :
       \E n \in (IF executor THEN {0, StartNonce} ELSE {0}) :
         nsync = [total_blocks_processed |-> 0,
                  nonce_manager |-> NewNonceManager(n),
                  executor |-> executor,
                  pc |-> "wait_header",
                  in_flight |-> 0,
                  read |-> "none"]

\* run_bot, lines 619-742: a block is processed; evaluate_and_execute may
\* allocate a nonce for a transaction and hand it to a spawned task
NsyncBlock ==
    /\ nsync.pc = "wait_header"
    /\ nsync.total_blocks_processed < MaxSyncRounds * NonceSyncInterval
    /\ \E submit \in (IF nsync.executor /\ nsync.nonce_manager.k < MaxTx
                       THEN BOOLEAN ELSE {FALSE}) :
         nsync' = [nsync EXCEPT
                     !.total_blocks_processed = @ + 1,
                     !.nonce_manager = IF submit THEN get_and_increment(@)
                                       ELSE @,
                     !.in_flight = IF submit THEN @ + 1 ELSE @,
                     !.pc = "nonce_sync",
                     !.read = "none"]
    /\ UNCHANGED othersOfNsync

\* run_bot, lines 751-775: the end of the loop body
NsyncPeriodicNonceSync ==
    /\ nsync.pc = "nonce_sync"
    /\ IF nonce_sync_due(nsync.total_blocks_processed, nsync.executor)
       THEN \E rd \in ChainNonceReads :
              nsync' = [nsync EXCEPT
                          !.nonce_manager = nonce_sync(@, rd),
                          !.pc = "wait_header",
                          !.read = rd]
       ELSE nsync' = [nsync EXCEPT !.pc = "wait_header"]
    /\ UNCHANGED othersOfNsync

\* execute_on_chain: the transaction of a spawned task was sent
NsyncTaskSendOk ==
    /\ nsync.in_flight > 0
    /\ nsync' = [nsync EXCEPT !.in_flight = @ - 1]
    /\ UNCHANGED othersOfNsync

\* execute_on_chain: the send of a spawned task failed, the nonce is given
\* back
NsyncTaskSendFail ==
    /\ nsync.in_flight > 0
    /\ nsync' = [nsync EXCEPT !.in_flight = @ - 1,
                              !.nonce_manager = rollback(@)]
    /\ UNCHANGED othersOfNsync

NextNsync ==
    \/ NsyncBlock
    \/ NsyncPeriodicNonceSync
    \/ NsyncTaskSendOk
    \/ NsyncTaskSendFail

SpecNsync == InitNsync /\ [][NextNsync]_vars

\* ─────────────── the bitmap refresh schedule of one connection ─────────────

\* run_bot, line 674: saturating_sub
bitmap_age(bn, last_bitmap_block) ==
    IF bn >= last_bitmap_block THEN bn - last_bitmap_block ELSE 0

\* a refresh test that waits one block longer
bitmap_refresh_due_strict(bn, last_bitmap_block, max_age) ==
    bitmap_age(bn, last_bitmap_block) > max_age

\* run_bot, line 675: the refresh test
bitmap_refresh_due(bn, last_bitmap_block, max_age) ==
    bitmap_age(bn, last_bitmap_block) >= max_age

\* the values of TICK_BITMAP_MAX_AGE_BLOCKS explored
BitmapMaxAges == {0, 1, 2, 3}

\* run_bot, lines 471-611: the initial bitmap sync was made at the newest
\* block, last_bitmap_block is that block
InitBmage ==
    /\ config = ShadowConfig
    /\ MainIdle
    /\ BitmapIdle
    /\ CodecIdle
    /\ writers = << >>
    /\ nsync = << >>
    /\ fee = << >>
    /\ nr_result = << >>
    /\ muldiv = << >>
    /\ swap = << >>
    /\ \E max_age \in BitmapMaxAges :
         bmage = [block_number |-> 1, last_bitmap_block |-> 1,
                  tick_bitmap_max_age_blocks |-> max_age,
                  headers |-> 0, tick_bitmap_syncs |-> 0,
                  refreshed |-> FALSE, last_before |-> 1]

\* run_bot, lines 642-691: a header is processed; last_before keeps the
\* last_bitmap_block the test was made with
BmageBlock ==
    /\ bmage.headers < MaxAgeHeaders
    /\ \E bn \in HeaderNumbers(bmage.block_number) :
         LET due == bitmap_refresh_due(bn, bmage.last_bitmap_block,
                                       bmage.tick_bitmap_max_age_blocks)
         IN  bmage' = [bmage EXCEPT
                         !.block_number = bn,
                         !.headers = @ + 1,
                         !.last_before = bmage.last_bitmap_block,
                         !.refreshed = due,
                         !.tick_bitmap_syncs = IF due THEN @ + 1 ELSE @,
                         !.last_bitmap_block = IF due THEN bn ELSE @]
    /\ UNCHANGED othersOfBmage

NextBmage ==
    \/ BmageBlock

SpecBmage == InitBmage /\ [][NextBmage]_vars

\* ──────────────────── the priority fee of execute_inner ────────────────────

\* bribes, in 10^6 wei (0 to 2 * 10^15 wei), and gas figures of the simulation
FeeBribes == {0, 1, 1000, 99999, 100000, 385000, 1000000, 100000000,
              385000000, 2000000000}
FeeGas == {0, 21000, 90909, 90910, 350000, 1000000}

\* execute_inner is entered with a bribe and a gas figure
InitFee ==
    /\ config = ShadowConfig
    /\ MainIdle
    /\ BitmapIdle
    /\ CodecIdle
    /\ writers = << >>
    /\ nsync = << >>
    /\ bmage = << >>
    /\ nr_result = << >>
    /\ muldiv = << >>
    /\ swap = << >>
    /\ \E b \in FeeBribes, g \in FeeGas :
         fee = [bribe_wei |-> b, simulated_gas |-> g, built |-> FALSE,
                max_priority_fee_per_gas |-> << >>]

\* execute_inner, lines 574-606: the transaction request is built
BuildTransaction ==
    /\ ~fee.built
    /\ fee' = [fee EXCEPT
                 !.built = TRUE,
                 !.max_priority_fee_per_gas =
                     priority_fee_per_gas(fee.bribe_wei, fee.simulated_gas)]
    /\ UNCHANGED othersOfFee

NextFee ==
    \/ BuildTransaction

SpecFee == InitFee /\ [][NextFee]_vars

\* ──────────────────── the search for the optimal amount ────────────────────

\* what the two pools and the configuration give the search
NrSpreads == {0, 1, 20, 400}
NrSlips == {0, 1}
NrGasCosts == {0, 7, 5000}
NrMaxAmounts == {5, 10, 100, 1610}
NrLiquidity == {0, 5000}

\* check_arbitrage_opportunity is about to call the search
InitNr ==
    /\ config = ShadowConfig
    /\ MainIdle
    /\ BitmapIdle
    /\ CodecIdle
    /\ writers = << >>
    /\ nsync = << >>
    /\ bmage = << >>
    /\ fee = << >>
    /\ muldiv = << >>
    /\ swap = << >>
    /\ \E sp \in NrSpreads, sl \in NrSlips, g \in NrGasCosts,
          m \in NrMaxAmounts, l \in NrLiquidity :
         nr_result = [p |-> [spread |-> sp, slip |-> sl, gas_cost_usd |-> g,
                      max_amount_weth |-> m, liquidity |-> l,
                      buy_liquidity |-> 5000],
               result |-> << >>]

\* check_arbitrage_opportunity, lines 121-135: the search runs
FindOptimalAmount ==
    /\ nr_result.result = << >>
    /\ nr_result' = [nr_result EXCEPT !.result = << find_optimal_amount_with_bitmap(nr_result.p) >>]
    /\ UNCHANGED othersOfNrResult

NextNr ==
    \/ FindOptimalAmount

SpecNr == InitNr /\ [][NextNr]_vars

\* ──────────────────── exact::mul_div ────────────────────

\* 2^(UintBits / 2): two operands from here on have a product that does not fit
HalfWord == 2^(UintBits \div 2)

\* operands around the places where products start to overflow
MulDivOperands ==
    {0, 1, 2, 3, 7, HalfWord - 1, HalfWord, HalfWord + 1, 2 * HalfWord,
     3 * HalfWord, (U256_MAX + 1) \div 2, U256_MAX - 1, U256_MAX}

\* a caller is about to multiply and divide
InitMuldiv ==
    /\ config = ShadowConfig
    /\ MainIdle
    /\ BitmapIdle
    /\ CodecIdle
    /\ writers = << >>
    /\ nsync = << >>
    /\ bmage = << >>
    /\ fee = << >>
    /\ nr_result = << >>
    /\ swap = << >>
    /\ \E a \in MulDivOperands, b \in MulDivOperands, c \in MulDivOperands :
         muldiv = [a |-> a, b |-> b, denominator |-> c,
                   down |-> << >>, up |-> << >>]

\* mul_div is called
MulDiv ==
    /\ muldiv.down = << >>
    /\ muldiv' = [muldiv EXCEPT !.down =
                     << mul_div(muldiv.a, muldiv.b, muldiv.denominator) >>]
    /\ UNCHANGED othersOfMuldiv

\* mul_div_rounding_up is called
MulDivRoundingUp ==
    /\ muldiv.up = << >>
    /\ muldiv' = [muldiv EXCEPT !.up =
                     << mul_div_rounding_up(muldiv.a, muldiv.b,
                                            muldiv.denominator) >>]
    /\ UNCHANGED othersOfMuldiv

NextMuldiv ==
    \/ MulDiv
    \/ MulDivRoundingUp

SpecMuldiv == InitMuldiv /\ [][NextMuldiv]_vars

\* ──────────────────── exact::compute_swap_step ────────────────────

\* square-root prices (Q96 is the price 1), liquidity, amounts and fees
SwapPrices == {4, 8, 24, 32, 33, 64, 256, 511}
SwapLiquidity == {1, 8, 100, 127}
SwapAmounts == {1, 10, 100, 1000, 5000}
SwapFees == {0, 1, 30, 99}

\* a swap is about to take one step
InitSwap ==
    /\ config = ShadowConfig
    /\ MainIdle
    /\ BitmapIdle
    /\ CodecIdle
    /\ writers = << >>
    /\ nsync = << >>
    /\ bmage = << >>
    /\ fee = << >>
    /\ nr_result = << >>
    /\ muldiv = << >>
    /\ \E c \in SwapPrices, t \in SwapPrices, l \in SwapLiquidity,
          a \in SwapAmounts, f \in SwapFees :
         swap = [sqrt_ratio_current |-> c, sqrt_ratio_target |-> t,
                 liquidity |-> l, amount_remaining |-> a, fee_pips |-> f,
                 step |-> << >>]

\* compute_swap_step is called
ComputeSwapStep ==
    /\ swap.step = << >>
    /\ swap' = [swap EXCEPT !.step =
                   << compute_swap_step(swap.sqrt_ratio_current,
                          swap.sqrt_ratio_target, swap.liquidity,
                          swap.amount_remaining, swap.fee_pips) >>]
    /\ UNCHANGED othersOfSwap

NextSwap ==
    \/ ComputeSwapStep

SpecSwap == InitSwap /\ [][NextSwap]_vars

\* ─────────────────────────────── claims ───────────────────────────────────

\* a step taken by the main task (the spawned tasks leave mainPc alone)
MainStep == mainPc' # mainPc

\* the values get_and_increment returned on a manager
ReturnedValues(nm) == {nm.returned[i] : i \in 1 .. Len(nm.returned)}

\* C1: with a contract address configured, an opportunity whose REVM
\* simulation ended in Revert, Halt or an EVM error is not submitted: no nonce
\* is allocated and no transaction task is started for it.
C1_RevmFailureBlocksSubmission ==
    (/\ last_eval.evaluated
     /\ config.contract_address
     /\ last_eval.revm \in {"Revert", "Halt", "Error"})
    => (~last_eval.nonce_allocated /\ last_eval.disposition # "submitted")

\* C2: on a NonceManager created with n that saw k get_and_increment and
\* r <= k rollback calls in any interleaving and no force_set, current() is
\* n + k - r.
C2_CurrentIsInitialPlusGetsMinusRollbacks ==
    \A c \in ConnIds :
        LET nm == nonce_managers[c]
        IN  ~nm.forced =>
                /\ nm.r <= nm.k
                /\ current(nm) = nm.initial + nm.k - nm.r

C2_Witness ==
    \E c \in ConnIds :
        LET nm == nonce_managers[c]
        IN  ~nm.forced /\ nm.initial > 0 /\ nm.k >= 2 /\ nm.r >= 1

\* C3: on a NonceManager created with n and never force-set, the k values
\* get_and_increment returned are pairwise different and are exactly
\* n, n+1, ..., n+k-1.
C3_ReturnedValuesAreInitialRange ==
    \A c \in ConnIds :
        LET nm == nonce_managers[c]
        IN  ~nm.forced =>
                /\ \A i, j \in 1 .. Len(nm.returned) :
                       i # j => nm.returned[i] # nm.returned[j]
                /\ ReturnedValues(nm) = nm.initial .. (nm.initial + nm.k - 1)

\* C4 (as stated): on every processed block on which the consecutive-failure
\* counter is >= circuit_breaker_threshold, the next step of the block loop is
\* the process exit.
C4_BreakerExitsOnEveryBlock ==
    [][(/\ mainPc = "detect"
        /\ MainStep
        /\ stats.consecutive_failures >= config.circuit_breaker_threshold)
       => mainPc' = "exited"]_vars

\* C4 (amended): on a processed block on which the consecutive-failure counter
\* is >= circuit_breaker_threshold, the process exits when every pool synced;
\* when a pool failed to sync the loop goes on to the next block without
\* exiting; in both cases no opportunity is evaluated, no nonce allocated, no
\* task started and no shadow record written on that block.
C4_BreakerExitsWhenSynced ==
    [][(/\ mainPc = "detect"
        /\ MainStep
        /\ stats.consecutive_failures >= config.circuit_breaker_threshold)
       => /\ all_synced => mainPc' = "exited"
          /\ ~all_synced => mainPc' = "nonce_sync"
          /\ ~last_eval'.evaluated
          /\ UNCHANGED << stats, nonce_managers, tasks, tx_count, broadcast,
                          shadow_log >>]_vars

C4_Witness ==
    /\ mainPc = "exited"
    /\ all_synced
    /\ stats.consecutive_failures >= config.circuit_breaker_threshold

\* C5: the minProfit of every submitted calldata is an amount of the
\* calldata's owedToken.
C5_MinProfitInOwedToken ==
    \A t \in tasks : t.calldata.min_profit_token = t.calldata.owed_token

\* C6: in every submitted calldata the token leg A takes in (token0 when
\* dir_A = 0, token1 when dir_A = 1) is owed, the token leg B takes in is
\* received, the two directions differ and the two tokens differ.
C6_DirectionsMatchTokens ==
    \A t \in tasks :
        LET cd == t.calldata
        IN  /\ cd.uni_dir # cd.aero_dir
            /\ cd.owed_token # cd.received_token
            /\ SwapTokenIn(cd.uni_dir = 0, config.token0_is_weth) = cd.owed_token
            /\ SwapTokenIn(cd.aero_dir = 0, config.token0_is_weth)
                   = cd.received_token

\* C7: when a task ends without its transaction being accepted, the counter
\* of the task's NonceManager goes down by exactly one (one rollback), no
\* other manager changes, and the consecutive-failure counter keeps its value.
C7_SendFailureRollsBackOnce ==
    [][\A t \in tasks :
          (t \notin tasks' /\ \A b \in broadcast' : b.id # t.id)
          => /\ current(nonce_managers'[t.nm]) = current(nonce_managers[t.nm]) - 1
             /\ nonce_managers'[t.nm].r = nonce_managers[t.nm].r + 1
             /\ \A c \in ConnIds \ {t.nm} : nonce_managers'[c] = nonce_managers[c]
             /\ stats'.consecutive_failures = stats.consecutive_failures]_vars

C7_Witness ==
    /\ stats.consecutive_failures >= 1
    /\ \E c \in ConnIds : nonce_managers[c].r >= 1

\* C8 (as stated): after run_bot returned the heartbeat-timeout error, the
\* next step of main is the 100 ms pause.
C8_HeartbeatThenPause ==
    [][(mainPc = "returned" /\ last_error = "heartbeat" /\ MainStep)
       => mainPc' = "sleep"]_vars

\* C8 (amended): a heartbeat timeout makes run_bot return; main then counts
\* the attempt and, unless max_retries > 0 and the count has reached
\* max_retries (then main returns the error), pauses; after the pause it
\* calls run_bot again.
C8_HeartbeatThenPauseUnlessCapped ==
    /\ [][(mainPc = "wait_header" /\ last_error' = "heartbeat")
          => mainPc' = "returned"]_vars
    /\ [][(mainPc = "returned" /\ last_error = "heartbeat" /\ MainStep)
          => /\ retry_count' = retry_count + 1
             /\ IF config.max_retries > 0 /\ retry_count' >= config.max_retries
                THEN mainPc' = "main_err"
                ELSE mainPc' = "sleep"]_vars
    /\ [][(mainPc = "sleep" /\ MainStep)
          => (mainPc' = "connect" /\ run_bot_calls' = run_bot_calls)]_vars
    /\ [][(mainPc = "connect" /\ MainStep)
          => run_bot_calls' = run_bot_calls + 1]_vars

C8_Witness ==
    /\ mainPc = "connect"
    /\ last_error = "heartbeat"
    /\ retry_count >= 1

\* C9: with max_retries = N > 0 run_bot is called at most N times and main
\* returns the error once the N-th call has failed; with max_retries = 0 main
\* never returns: every failed call is followed by the pause.
C9_AttemptCap ==
    /\ [](config.max_retries > 0 => run_bot_calls <= config.max_retries)
    /\ []((config.max_retries > 0 /\ retry_count >= config.max_retries)
            => mainPc = "main_err")
    /\ [](mainPc = "main_err"
            => (config.max_retries > 0 /\ run_bot_calls = config.max_retries))
    /\ [][(config.max_retries = 0 /\ mainPc = "returned" /\ MainStep)
          => mainPc' = "sleep"]_vars

C9_Witness ==
    /\ mainPc = "main_err"
    /\ run_bot_calls = config.max_retries

\* C10: with the execution-enabled flag false no nonce is ever allocated (no
\* get_and_increment on any manager, every counter at its initial value) and
\* no transaction task is started or broadcast.
C10_ShadowModeSubmitsNothing ==
    ~config.execution_enabled_flag =>
        /\ \A c \in ConnIds :
               /\ nonce_managers[c].k = 0
               /\ current(nonce_managers[c]) = nonce_managers[c].initial
        /\ tasks = {}
        /\ broadcast = {}
        /\ tx_count = 0

C10_Witness ==
    /\ ~config.execution_enabled_flag
    /\ config.private_key
    /\ config.contract_address
    /\ shadow_log >= 2

\* C11: in shadow mode every opportunity handed to evaluate_and_execute adds
\* exactly one record to the shadow log.
C11_OneShadowRecordPerOpportunity ==
    [][(shadow_mode(config) /\ ~last_eval.evaluated /\ last_eval'.evaluated)
       => shadow_log' = shadow_log + 1]_vars

\* C12: on a block at which the sync of a pool failed that pool's is_active()
\* is false: on a block where not every pool synced, some pool is inactive.
C12_FailedSyncDisablesPool ==
    (mainPc = "detect" /\ ~all_synced)
    => \E i \in Pools : ~is_active(states[i])

\* C13: on a block where the sync of some pool returned an error,
\* evaluate_and_execute is not called: nothing is simulated, logged or
\* submitted for that block.
C13_NoDetectionOnSyncError ==
    (mainPc \in {"detect", "nonce_sync"} /\ ~all_synced)
    => last_eval = NoEval

C13_Witness ==
    /\ mainPc = "nonce_sync"
    /\ ~all_synced
    /\ \A i \in Pools : is_active(states[i])
    /\ states[0].eth_price_usd # states[1].eth_price_usd

\* C14: every bitmap that sync_tick_bitmap installs, sub-call failures
\* included, has only ticks with initialized = TRUE whose bit is set in a
\* word stored in words
C14_TicksAreBitsOfStoredWords ==
    bitmap_pool.tick_bitmap # << >> =>
        LET data == bitmap_pool.tick_bitmap[1]
            ts == IF bitmap_spacing > 1 THEN bitmap_spacing ELSE 1
        IN  \A t \in DOMAIN data.ticks :
              /\ data.ticks[t].initialized
              /\ t % ts = 0
              /\ (t \div ts) \div WordBits \in DOMAIN data.words
              /\ (t \div ts) % WordBits \in data.words[(t \div ts) \div WordBits]

\* a bitmap installed by a sync in which a sub-call failed, holding a tick
\* below zero
C14_Witness ==
    /\ bitmap_result = "ok_with_failures"
    /\ bitmap_pool.tick_bitmap # << >>
    /\ \E t \in DOMAIN bitmap_pool.tick_bitmap[1].ticks : t < 0

\* C15: a sync_tick_bitmap that fails in one of its two aggregated calls
\* leaves the pool state, tick_bitmap included, as it was
C15_FailedSyncKeepsState ==
    [][(bitmap_syncs' # bitmap_syncs /\ bitmap_result' = "err")
       => bitmap_pool' = bitmap_pool]_vars

\* a failed sync after one that installed a bitmap with ticks: the bitmap is
\* still there
C15_Witness ==
    /\ bitmap_result = "err"
    /\ bitmap_syncs = 2
    /\ bitmap_pool.tick_bitmap # << >>
    /\ DOMAIN bitmap_pool.tick_bitmap[1].ticks # {}

\* C16: decoding the bytes that encode_compact_calldata produced gives back
\* the nine arguments, the largest u128 and u32 included
C16_DecodeInvertsEncode ==
    (codec_bytes # << >> /\ codec_out # << >>) => codec_out = << codec_in >>

\* a decoded call whose minProfit is u128::MAX, whose deadline is u32::MAX
\* and whose amount has 32 different bytes
C16_Witness ==
    /\ codec_out # << >>
    /\ codec_in.min_profit = NumMax(8)
    /\ codec_in.deadline_block = NumMax(2)
    /\ codec_in.amount_in_wei = NumStair(16)
    /\ codec_in.pool_a # codec_in.pool_b

\* the byte of weight 256^d of an integer
ByteOfWeight(n, d) ==
    (n[(d \div 2) + 1] \div (IF d % 2 = 1 THEN 256 ELSE 1)) % 256

\* C17: the encoding is 134 bytes: pool A at 0..20, pool B at 20..40,
\* owedToken at 40..60, receivedToken at 60..80, the amount big-endian at
\* 80..112, the directions at 112 and 113, minProfit big-endian at 114..130,
\* the deadline big-endian at 130..134 (offsets from 0, sequences from 1)
C17_Layout ==
    codec_bytes # << >> =>
        /\ Len(codec_bytes) = 134
        /\ \A i \in 1..20 :
              /\ codec_bytes[i] = codec_in.pool_a[i]
              /\ codec_bytes[20 + i] = codec_in.pool_b[i]
              /\ codec_bytes[40 + i] = codec_in.owed_token[i]
              /\ codec_bytes[60 + i] = codec_in.received_token[i]
        /\ \A k \in 0..31 :
              codec_bytes[81 + k] = ByteOfWeight(codec_in.amount_in_wei, 31 - k)
        /\ codec_bytes[113] = codec_in.uni_direction
        /\ codec_bytes[114] = codec_in.aero_direction
        /\ \A k \in 0..15 :
              codec_bytes[115 + k] = ByteOfWeight(codec_in.min_profit, 15 - k)
        /\ \A k \in 0..3 :
              codec_bytes[131 + k] = ByteOfWeight(codec_in.deadline_block, 3 - k)

\* an encoding of four fields that tell the byte order and the field order
\* apart
C17_Witness ==
    /\ codec_bytes # << >>
    /\ codec_in.amount_in_wei = NumOne(16)
    /\ codec_in.deadline_block = NumStair(2)
    /\ codec_in.min_profit = NumStair(8)
    /\ codec_in.uni_direction # codec_in.aero_direction
    /\ codec_in.owed_token # codec_in.received_token

\* C18: an opportunity whose local EVM simulation ends in Revert or Halt adds
\* one to the consecutive-failure counter and is discarded: it reaches neither
\* the shadow log nor submission
C18_RevertOrHaltCountsAndDiscards ==
    [][(/\ ~last_eval.evaluated
        /\ last_eval'.evaluated
        /\ last_eval'.revm \in {"Revert", "Halt"})
       => (/\ stats'.consecutive_failures = stats.consecutive_failures + 1
           /\ shadow_log' = shadow_log
           /\ tasks' = tasks)]_vars

\* C19: once run_bot has returned, the pending-transaction listener of that
\* connection is gone, so that at most one listener task exists at any time
C19_AtMostOneListener ==
    Running => Cardinality(listeners) <= 1

RefreshStep == writers.opt # writers'.opt

\* C21: optimistic_refresh_pool changes the pool's state only when the read
\* succeeded and the price it gives differs from the stored one, as compared
\* under the read lock, by more than 0.001; a call that fails or finds a
\* difference of at most 0.001 leaves every field as it was
C21_RefreshWritesOnlyOnPriceChange ==
    [][RefreshStep =>
         /\ writers'.pool # writers.pool =>
               /\ writers.opt.rd.ok
               /\ abs_diff(writers.opt.seen, writers.opt.rd.price) > RefreshThreshold
         /\ writers'.opt.result \in {"Err", "Ok(false)"} =>
               writers'.pool = writers.pool]_vars

\* a refresh that returned Ok(false) at a difference of exactly 0.001 while
\* the liquidity it read differs from the stored one
C21_Witness ==
    /\ writers.opt.result = "Ok(false)"
    /\ abs_diff(writers.opt.seen, writers.opt.rd.price) = RefreshThreshold
    /\ writers.opt.rd.liquidity # writers.pool.liquidity

\* C30: with both writers running on the pool, a write never replaces the
\* stored snapshot by one read from the chain earlier
C30_SnapshotNeverRegresses ==
    [][writers'.installed >= writers.installed]_vars

\* C22: on a processed block whose count is a positive multiple of 50, with
\* an executor address and a successful read of the chain nonce, the local
\* counter equals the value read right after the step
C22_NonceSyncSetsChainValue ==
    [][(/\ nsync.pc = "nonce_sync"
        /\ nsync'.pc = "wait_header"
        /\ nsync.total_blocks_processed % 50 = 0
        /\ nsync.total_blocks_processed > 0
        /\ nsync.executor
        /\ nsync'.read \in Nat)
       => current(nsync'.nonce_manager) = nsync'.read]_vars

\* after block 50 the counter was higher than the chain nonce (a nonce was
\* allocated and never given back) and was set to the chain value
C22_Witness ==
    /\ nsync # << >>
    /\ nsync.total_blocks_processed = 50
    /\ nsync.pc = "wait_header"
    /\ nsync.nonce_manager.forced
    /\ nsync.nonce_manager.k > nsync.nonce_manager.r
    /\ nsync.read = StartNonce
    /\ current(nsync.nonce_manager) = StartNonce

C24_PriorityFeeAtLeastOneGwei ==
    fee.built =>
        /\ fee.max_priority_fee_per_gas # << >>
        /\ fee.max_priority_fee_per_gas[1] >= 1000

\* the profits the coarse scan of the call in nr_result has looked at
ScannedProfits ==
    { compute_arbitrage_profit_with_bitmap(scan_amount(i, nr_result.p), nr_result.p) :
        i \in 1..scan_steps }

\* C25 as stated: the search returns the amount 0 whenever no size it has
\* looked at has a profit above 0
C25_ZeroAmountWhenNoProfit ==
    (/\ nr_result.result # << >>
     /\ \A q \in ScannedProfits : q <= 0
     /\ nr_result.result[1].expected_profit <= 0)
        => nr_result.result[1].optimal_amount = 0

\* C25 as the code has it: the search returns the amount 0 exactly when the
\* range is empty or every scanned size was rejected (profit minus infinity);
\* otherwise the amount is at least min_amount, whatever the profit
C25_ZeroAmountWhenNothingScanned ==
    nr_result.result # << >> =>
        /\ nr_result.result[1].optimal_amount = 0
             <=> \/ effective_max(nr_result.p) <= min_amount
                 \/ \A q \in ScannedProfits : q = NEG_INFINITY
        /\ nr_result.result[1].optimal_amount # 0
             => /\ nr_result.result[1].optimal_amount >= min_amount
                /\ nr_result.result[1].optimal_amount <= effective_max(nr_result.p)

\* a search over sizes that all lose money has returned an amount
C25_Witness ==
    /\ nr_result.result # << >>
    /\ \A q \in ScannedProfits : q < 0 /\ q > NEG_INFINITY
    /\ nr_result.result[1].optimal_amount > 0
    /\ nr_result.result[1].expected_profit < 0

\* C27: for operands above 0 whose true quotient fits in the word, mul_div
\* is the floor and mul_div_rounding_up the ceiling of a * b / c, also when
\* a * b does not fit
C27_MulDivIsExact ==
    (/\ muldiv.a > 0 /\ muldiv.b > 0 /\ muldiv.denominator > 0
     /\ (muldiv.a * muldiv.b + muldiv.denominator - 1) \div muldiv.denominator
            <= U256_MAX)
        => /\ muldiv.down # << >> =>
                muldiv.down[1] = (muldiv.a * muldiv.b) \div muldiv.denominator
           /\ muldiv.up # << >> =>
                muldiv.up[1] = (muldiv.a * muldiv.b + muldiv.denominator - 1)
                                    \div muldiv.denominator

\* C26: with liquidity above 0 and a fee below the whole, the input a step
\* consumes and the fee it takes are together at most the amount remaining
C26_InputPlusFeeWithinRemaining ==
    (/\ swap.step # << >>
     /\ swap.liquidity > 0
     /\ swap.fee_pips < FeeDenominator)
        => swap.step[1].amount_in + swap.step[1].fee_amount
              <= swap.amount_remaining

\* C28: the consecutive-failure counter counts the failed simulations since
\* the last successful one: a step changes it only by evaluating an
\* opportunity, to 0 when the check passes and by one more when it fails
C28_CounterFollowsSimulations ==
    [][IF ~last_eval.evaluated /\ last_eval'.evaluated
       THEN stats'.consecutive_failures =
               IF last_eval'.math_ok THEN 0
               ELSE stats.consecutive_failures + 1
       ELSE stats'.consecutive_failures = stats.consecutive_failures]_vars

\* C29: no two transactions that were both accepted by send_transaction
\* carry the same nonce (nonces below the account's transaction count, which
\* no node accepts, are left out)
C29_BroadcastNoncesDistinct ==
    \A a \in broadcast, b \in broadcast :
        (a.id # b.id /\ a.nonce >= StartNonce) => a.nonce # b.nonce

====
